---- MODULE Spec2Model ----
(***************************************************************************)
(* Model of pysignalclirestapi/api.py: the SignalCliRestApi client.        *)
(* One client object issues blocking HTTP requests; the remote server and  *)
(* the local file system are the environment and answer nondeterministic-  *)
(* ally.  Python values are tagged records so that the dynamic typing the  *)
(* code relies on (the "in" operator, subscripting, unpacking) is modelled *)
(* by what Python does for each type.                                      *)
(***************************************************************************)
EXTENDS Integers, Sequences, FiniteSets, TLC

VARIABLES pc, op, filenames, attachments_as_bytes, filename, api_versions,
          build_nr, url, data, resp, net, opened, outcome, prev_versions

vars == <<pc, op, filenames, attachments_as_bytes, filename, api_versions,
          build_nr, url, data, resp, net, opened, outcome, prev_versions>>

-----------------------------------------------------------------------------
(* Bounds of the explored inputs *)

MaxFiles == 2
MaxBytes == 2

-----------------------------------------------------------------------------
(* Python values *)

None == [t |-> "none"]
Unset == [t |-> "unset"]
Str(s) == [t |-> "str", s |-> s]
Num(i) == [t |-> "int", i |-> i]
List(l) == [t |-> "list", l |-> l]
Tuple(l) == [t |-> "tuple", l |-> l]
Dict(d) == [t |-> "dict", d |-> d]
EmptyDict == Dict(<<>>)

(* Results of evaluating an expression or running a call *)
Ok(v) == [r |-> "ok", v |-> v]
Raise(cls, arg, cause) == [r |-> "raise", cls |-> cls, arg |-> arg, cause |-> cause]
Pending == [r |-> "pending"]

SeqsUpTo(S, n) == UNION {[1..k -> S] : k \in 0..n}

(* Python: sub in s, for two str *)
IsSubstring(sub, s) ==
    \E i \in 1..(Len(s) - Len(sub) + 1) : SubSeq(s, i, i + Len(sub) - 1) = sub

(* Python: key in container.  A str is searched for a substring, a list or  *)
(* tuple for an equal element, a dict for a key; anything else raises      *)
(* TypeError.                                                               *)
PyIn(key, c) ==
    CASE c.t = "str" -> Ok(IsSubstring(key, c.s))
      [] c.t \in {"list", "tuple"} -> Ok(\E i \in 1..Len(c.l) : c.l[i] = Str(key))
      [] c.t = "dict" -> Ok(key \in DOMAIN c.d)
      [] OTHER -> Raise("TypeError", Str("argument is not iterable"), "none")

(* Python: container[key] with a str key *)
GetItem(c, key) ==
    IF c.t = "dict"
    THEN IF key \in DOMAIN c.d THEN Ok(c.d[key]) ELSE Raise("KeyError", Str(key), "none")
    ELSE Raise("TypeError", Str("indices must be integers"), "none")

-----------------------------------------------------------------------------
(* helpers.bytes_to_base64: standard base64 of a byte string, as text *)

Alphabet == "ABCDEFGHIJKLMNOPQRSTUVWXYZabcdefghijklmnopqrstuvwxyz0123456789+/"

B64Char(k) == SubSeq(Alphabet, k + 1, k + 1)

RECURSIVE bytes_to_base64(_)
bytes_to_base64(b) ==
    IF Len(b) = 0 THEN ""
    ELSE IF Len(b) = 1
    THEN B64Char(b[1] \div 4) \o B64Char((b[1] % 4) * 16) \o "=="
    ELSE IF Len(b) = 2
    THEN B64Char(b[1] \div 4) \o B64Char((b[1] % 4) * 16 + b[2] \div 16)
         \o B64Char((b[2] % 16) * 4) \o "="
    ELSE B64Char(b[1] \div 4) \o B64Char((b[1] % 4) * 16 + b[2] \div 16)
         \o B64Char((b[2] % 16) * 4 + b[3] \div 64) \o B64Char(b[3] % 64)
         \o bytes_to_base64(SubSeq(b, 4, Len(b)))

-----------------------------------------------------------------------------
(* The environment: the client's configuration, the files and the server   *)

base_url == "http://gw"
number == "+4911"
message == "hello"
recipients == <<"+4922">>

Paths == {"a.png", "b.txt"}

(* What a readable file holds *)
FileContent(p) == IF p = "a.png" THEN <<255, 0>> ELSE <<>>

(* Raw byte payloads a caller passes *)
ByteSamples == {<<77>>, <<77, 97, 110>>}

(* A file system: the set of paths that open() can read *)
FileSystems == SUBSET Paths

FilenameArgs == {None} \cup {List(l) : l \in SeqsUpTo(Paths, MaxFiles)}
BytesArgs == {None} \cup {List(l) : l \in SeqsUpTo(ByteSamples, MaxBytes)}

NotJson == [t |-> "notjson"]
TransportError == [t |-> "exc", cls |-> "ConnectionError"]
Response(status, content) == [t |-> "resp", status_code |-> status, content |-> content]

VersionValues ==
    {List(<<Str("v1")>>), List(<<Str("v1"), Str("v2")>>), List(<<Str("v2")>>),
     List(<<>>), Str("v2"), None}

AboutBodies ==
    {NotJson, EmptyDict, List(<<>>), Dict("error" :> Str("boom")),
     Dict("versions" :> List(<<Str("v1"), Str("v2")>>) @@ "build" :> Num(2)),
     Dict("versions" :> List(<<Str("v1")>>) @@ "mode" :> Str("json-rpc"))}
    \cup {Dict("versions" :> v) : v \in VersionValues}

AboutResponses ==
    {TransportError}
    \cup {Response(s, b) : s \in {200, 500}, b \in AboutBodies}
    \cup {Response(404, b) : b \in {NotJson, Dict("versions" :> List(<<Str("v1"), Str("v2")>>))}}

Bodies ==
    {NotJson, EmptyDict, None, List(<<Str("error")>>),
     Dict("error" :> Str("boom")), Dict("id" :> Str("group.1"))}

Responses ==
    {TransportError} \cup {Response(s, b) : s \in {200, 201, 204, 400}, b \in Bodies}

SendResponses ==
    {TransportError} \cup {Response(s, b) : s \in {201, 400}, b \in Bodies}

-----------------------------------------------------------------------------
(* Pieces of the code shared by the operations *)

(* json.loads(resp.content) and resp.json() *)
json_loads(content) ==
    IF content = NotJson
    THEN Raise("JSONDecodeError", Str("Expecting value"), "none")
    ELSE Ok(content)

SignalCliRestApiError(arg) == Raise("SignalCliRestApiError", arg, "none")

(* raise_from(SignalCliRestApiError(msg), exc) *)
raise_from(msg, exc) == Raise("SignalCliRestApiError", Str(msg), exc.cls)

(* except Exception as exc: re-raise a SignalCliRestApiError, wrap the rest *)
Handle(result, msg) ==
    IF result.r = "raise" /\ result.cls # "SignalCliRestApiError"
    THEN raise_from(msg, result)
    ELSE result

(* The status branch every operation but api_info and mode has: on a       *)
(* status outside the success codes, raise with the server's error or a    *)
(* generic message.                                                         *)
StatusError(r, generic) ==
    LET json_resp == json_loads(r.content) IN
    IF json_resp.r = "raise" THEN json_resp
    ELSE LET has == PyIn("error", json_resp.v) IN
         IF has.r = "raise" THEN has
         ELSE IF has.v
         THEN LET e == GetItem(json_resp.v, "error") IN
              IF e.r = "raise" THEN e ELSE SignalCliRestApiError(e.v)
         ELSE SignalCliRestApiError(Str(generic))

(* requests.get/post/put/delete: the transport raises or hands a response *)
Request(r) == IF r.t = "exc" THEN Raise(r.cls, Str("connection failed"), "none") ELSE Ok(r)

-----------------------------------------------------------------------------
(* api_info *)

api_info(r) ==
    LET body ==
        IF r.t = "exc" THEN Request(r)
        ELSE IF r.status_code = 404 THEN Ok(List(<<Str("v1"), Num(1)>>))
        ELSE LET d == json_loads(r.content) IN
             IF d.r = "raise" THEN d
             ELSE LET versions == GetItem(d.v, "versions") IN
                  IF versions.r = "raise" THEN versions
                  ELSE LET build == GetItem(d.v, "build") IN
                       IF build.r = "ok" THEN Ok(Tuple(<<versions.v, build.v>>))
                       ELSE IF build.cls = "KeyError"
                       THEN Ok(Tuple(<<versions.v, Num(1)>>))
                       ELSE build
    IN IF body.r = "raise"
       THEN raise_from("Couldn't determine REST API version", body)
       ELSE body

-----------------------------------------------------------------------------
Init ==
    /\ pc = "idle"
    /\ op = "none"
    /\ filenames = None
    /\ attachments_as_bytes = None
    /\ filename = None
    /\ api_versions = Unset
    /\ build_nr = Unset
    /\ url = ""
    /\ data = <<>>
    /\ resp = Unset
    /\ net = <<>>
    /\ opened = <<>>
    /\ outcome = Pending
    /\ prev_versions = Unset

(* Entering a public method with its arguments: the locals of the previous *)
(* call are gone                                                           *)
Enter(name, first, fn, ab, f) ==
    /\ pc = "idle"
    /\ pc' = first
    /\ filenames' = fn
    /\ attachments_as_bytes' = ab
    /\ filename' = f
    /\ op' = name
    /\ api_versions' = Unset
    /\ build_nr' = Unset
    /\ url' = ""
    /\ data' = <<>>
    /\ resp' = Unset
    /\ net' = <<>>
    /\ opened' = <<>>
    /\ outcome' = Pending

(* Leaving a public method, by return or by raise *)
Leave(result) ==
    /\ pc' = "idle"
    /\ outcome' = result

Sent(method, path) == Append(net, [method |-> method, url |-> base_url \o path])

Call_api_info ==
    /\ Enter("api_info", "api_info", None, None, None)
    /\ UNCHANGED prev_versions

Do_api_info ==
    /\ pc = "api_info"
    /\ \E r \in AboutResponses :
        /\ net' = Sent("GET", "/v1/about")
        /\ resp' = r
        /\ Leave(api_info(r))
    /\ UNCHANGED <<op, filenames, attachments_as_bytes, filename, api_versions,
                   build_nr, url, data, opened, prev_versions>>

-----------------------------------------------------------------------------
(* send_message *)

CapabilityMessage ==
    "This signal-cli-rest-api version is not capable of sending multiple attachments. Please upgrade your signal-cli-rest-api docker container!"

(* Variant: the capability check is missing *)
CapabilityCheck_missing(fn, av) == Ok(None)

(* multiple attachments only allowed when api version >= v2 *)
CapabilityCheck(fn, av) ==
    IF fn # None /\ Len(fn.l) > 1
    THEN LET has == PyIn("v2", av) IN
         IF has.r = "raise" THEN has
         ELSE IF ~has.v THEN SignalCliRestApiError(Str(CapabilityMessage))
         ELSE Ok(None)
    ELSE Ok(None)

(* Variant: no fallback to the old endpoint *)
SelectUrl_no_fallback(av) ==
    LET has == PyIn("v2", av) IN
    IF has.r = "raise" THEN has ELSE Ok(base_url \o "/v2/send")

(* the v2 endpoint, falling back to the old api version *)
SelectUrl(av) ==
    LET has == PyIn("v2", av) IN
    IF has.r = "raise" THEN has
    ELSE IF ~has.v THEN Ok(base_url \o "/v1/send")
    ELSE Ok(base_url \o "/v2/send")

BaseData == ("message" :> message @@ "number" :> number @@ "recipients" :> recipients)

(* [bytes_to_base64(attachment) for attachment in attachments_as_bytes] *)
EncodeAll(l) == [i \in 1..Len(l) |-> bytes_to_base64(l[i])]

(* for filename in filenames: open, read, encode, append; the first file   *)
(* that cannot be opened ends the loop with its exception.                 *)
RECURSIVE ReadFiles(_, _, _, _)
ReadFiles(fns, fs, acc, seen) ==
    IF fns = <<>> THEN [res |-> Ok(acc), opened |-> seen]
    ELSE IF Head(fns) \notin fs
    THEN [res |-> Raise("FileNotFoundError", Str(Head(fns)), "none"),
          opened |-> Append(seen, [path |-> Head(fns), ok |-> FALSE])]
    ELSE ReadFiles(Tail(fns), fs, Append(acc, bytes_to_base64(FileContent(Head(fns)))),
                   Append(seen, [path |-> Head(fns), ok |-> TRUE]))

(* Variant: the files are encoded first and the raw bytes appended *)
BuildData_files_first(d, av, fn, ab, fs) ==
    IF PyIn("v2", av).v
    THEN LET rd == IF fn # None
                   THEN ReadFiles(fn.l, fs, <<>>, <<>>)
                   ELSE [res |-> Ok(<<>>), opened |-> <<>>]
         IN IF rd.res.r = "raise" THEN rd
            ELSE [res |-> Ok(d @@ ("base64_attachments" :>
                                   rd.res.v \o (IF ab = None THEN <<>> ELSE EncodeAll(ab.l)))),
                  opened |-> rd.opened]
    ELSE IF fn # None /\ Len(fn.l) = 1
         THEN LET rd == ReadFiles(fn.l, fs, <<>>, <<>>) IN
              IF rd.res.r = "raise" THEN rd
              ELSE [res |-> Ok(d @@ ("base64_attachment" :> rd.res.v[1])),
                    opened |-> rd.opened]
         ELSE [res |-> Ok(d), opened |-> <<>>]

(* Variant: the legacy branch forwards the raw bytes as a list *)
BuildData_legacy_bytes(d, av, fn, ab, fs) ==
    LET d2 == IF ~PyIn("v2", av).v /\ ab # None
              THEN d @@ ("base64_attachments" :> EncodeAll(ab.l))
              ELSE d
    IN IF PyIn("v2", av).v
       THEN LET base64_attachments == IF ab = None THEN <<>> ELSE EncodeAll(ab.l)
                rd == IF fn # None
                      THEN ReadFiles(fn.l, fs, base64_attachments, <<>>)
                      ELSE [res |-> Ok(base64_attachments), opened |-> <<>>]
            IN IF rd.res.r = "raise" THEN rd
               ELSE [res |-> Ok(d @@ ("base64_attachments" :> rd.res.v)),
                     opened |-> rd.opened]
       ELSE IF fn # None /\ Len(fn.l) = 1
            THEN LET rd == ReadFiles(fn.l, fs, <<>>, <<>>) IN
                 IF rd.res.r = "raise" THEN rd
                 ELSE [res |-> Ok(d2 @@ ("base64_attachment" :> rd.res.v[1])),
                       opened |-> rd.opened]
            ELSE [res |-> Ok(d2), opened |-> <<>>]

(* The attachment part of the payload, for the branch the tags select *)
BuildData(d, av, fn, ab, fs) ==
    IF PyIn("v2", av).v
    THEN LET base64_attachments == IF ab = None THEN <<>> ELSE EncodeAll(ab.l)
             rd == IF fn # None
                   THEN ReadFiles(fn.l, fs, base64_attachments, <<>>)
                   ELSE [res |-> Ok(base64_attachments), opened |-> <<>>]
         IN IF rd.res.r = "raise" THEN rd
            ELSE [res |-> Ok(d @@ ("base64_attachments" :> rd.res.v)),
                  opened |-> rd.opened]
    ELSE IF fn # None /\ Len(fn.l) = 1
         THEN LET rd == ReadFiles(fn.l, fs, <<>>, <<>>) IN
              IF rd.res.r = "raise" THEN rd
              ELSE [res |-> Ok(d @@ ("base64_attachment" :> rd.res.v[1])),
                    opened |-> rd.opened]
         ELSE [res |-> Ok(d), opened |-> <<>>]

(* the response to the POST *)
SendResult(r) ==
    IF r.t = "exc" THEN Request(r)
    ELSE IF r.status_code # 201
    THEN StatusError(r, "Unknown error while sending signal message")
    ELSE Ok(None)

LeaveSend(result) ==
    /\ Leave(result)
    /\ prev_versions' = api_versions

Call_send_message ==
    /\ \E fn \in FilenameArgs, ab \in BytesArgs :
        Enter("send_message", "sm_api_info", fn, ab, None)
    /\ UNCHANGED prev_versions

(* Variant: the tags of the previous send are reused instead of asked for *)
SendMessage_api_info_cached ==
    /\ pc = "sm_api_info"
    /\ IF prev_versions # Unset
       THEN /\ api_versions' = prev_versions
            /\ build_nr' = Num(1)
            /\ pc' = "sm_check"
            /\ UNCHANGED <<net, resp, outcome, prev_versions>>
       ELSE \E r \in AboutResponses :
            /\ net' = Sent("GET", "/v1/about")
            /\ resp' = r
            /\ LET info == api_info(r) IN
               IF info.r = "raise"
               THEN /\ LeaveSend(info)
                    /\ UNCHANGED <<api_versions, build_nr>>
               ELSE /\ api_versions' = info.v.l[1]
                    /\ build_nr' = info.v.l[2]
                    /\ pc' = "sm_check"
                    /\ UNCHANGED <<outcome, prev_versions>>
    /\ UNCHANGED <<op, filenames, attachments_as_bytes, filename, url, data, opened>>

(* api_versions, build_nr = self.api_info() *)
SendMessage_api_info ==
    /\ pc = "sm_api_info"
    /\ \E r \in AboutResponses :
        /\ net' = Sent("GET", "/v1/about")
        /\ resp' = r
        /\ LET info == api_info(r) IN
           IF info.r = "raise"
           THEN /\ LeaveSend(info)
                /\ UNCHANGED <<api_versions, build_nr>>
           ELSE /\ api_versions' = info.v.l[1]
                /\ build_nr' = info.v.l[2]
                /\ pc' = "sm_check"
                /\ UNCHANGED <<outcome, prev_versions>>
    /\ UNCHANGED <<op, filenames, attachments_as_bytes, filename, url, data, opened>>

(* the capability check, the endpoint and the fixed part of the payload *)
SendMessage_check ==
    /\ pc = "sm_check"
    /\ LET chk == CapabilityCheck(filenames, api_versions)
           sel == SelectUrl(api_versions)
       IN IF chk.r = "raise"
          THEN LeaveSend(chk) /\ UNCHANGED <<url, data>>
          ELSE IF sel.r = "raise"
          THEN LeaveSend(sel) /\ UNCHANGED <<url, data>>
          ELSE /\ url' = sel.v
               /\ data' = BaseData
               /\ pc' = "sm_build"
               /\ UNCHANGED <<outcome, prev_versions>>
    /\ UNCHANGED <<op, filenames, attachments_as_bytes, filename, api_versions,
                   build_nr, resp, net, opened>>

(* Variant: a failed read is swallowed and the message goes out anyway *)
SendMessage_build_swallow ==
    /\ pc = "sm_build"
    /\ \E fs \in FileSystems :
        LET b == BuildData(data, api_versions, filenames, attachments_as_bytes, fs) IN
        /\ opened' = b.opened
        /\ data' = IF b.res.r = "raise" THEN data ELSE b.res.v
        /\ pc' = "sm_post"
        /\ UNCHANGED <<outcome, prev_versions>>
    /\ UNCHANGED <<op, filenames, attachments_as_bytes, filename, api_versions,
                   build_nr, url, resp, net>>

(* the attachments are read and encoded inside the try block *)
SendMessage_build ==
    /\ pc = "sm_build"
    /\ \E fs \in FileSystems :
        LET b == BuildData(data, api_versions, filenames, attachments_as_bytes, fs) IN
        /\ opened' = b.opened
        /\ IF b.res.r = "raise"
           THEN /\ LeaveSend(Handle(b.res, "Couldn't send signal message"))
                /\ UNCHANGED data
           ELSE /\ data' = b.res.v
                /\ pc' = "sm_post"
                /\ UNCHANGED <<outcome, prev_versions>>
    /\ UNCHANGED <<op, filenames, attachments_as_bytes, filename, api_versions,
                   build_nr, url, resp, net>>

(* resp = requests.post(url, json=data, ...) and the status check *)
SendMessage_post ==
    /\ pc = "sm_post"
    /\ \E r \in SendResponses :
        /\ net' = Append(net, [method |-> "POST", url |-> url])
        /\ resp' = r
        /\ LeaveSend(Handle(SendResult(r), "Couldn't send signal message"))
    /\ UNCHANGED <<op, filenames, attachments_as_bytes, filename, api_versions,
                   build_nr, url, data, opened>>

-----------------------------------------------------------------------------
(* The single-request operations *)

profile_name == "alice"
attachment_id == "att1"

(* mode: no try block around the request, the parse or the lookup *)
mode(r) ==
    IF r.t = "exc" THEN Request(r)
    ELSE LET d == json_loads(r.content) IN
         IF d.r = "raise" THEN d
         ELSE LET m == GetItem(d.v, "mode") IN
              IF m.r = "ok" THEN Ok(m.v)
              ELSE IF m.cls = "KeyError" THEN Ok(Str("unknown"))
              ELSE m

create_group(r) ==
    Handle(IF r.t = "exc" THEN Request(r)
           ELSE IF r.status_code # 201 /\ r.status_code # 200
           THEN StatusError(r, "Unknown error while creating Signal Messenger group")
           ELSE LET j == json_loads(r.content) IN
                IF j.r = "raise" THEN j ELSE GetItem(j.v, "id"),
           "Couldn't create Signal Messenger group: ")

(* list_groups and receive parse the body before they look at the status *)
list_groups(r) ==
    Handle(IF r.t = "exc" THEN Request(r)
           ELSE LET json_resp == json_loads(r.content) IN
                IF json_resp.r = "raise" THEN json_resp
                ELSE IF r.status_code # 200
                THEN StatusError(r, "Unknown error while listing Signal Messenger groups")
                ELSE json_resp,
           "Couldn't list Signal Messenger groups: ")

receive(r) ==
    Handle(IF r.t = "exc" THEN Request(r)
           ELSE LET json_resp == json_loads(r.content) IN
                IF json_resp.r = "raise" THEN json_resp
                ELSE IF r.status_code # 200
                THEN StatusError(r, "Unknown error while receiving Signal Messenger data")
                ELSE json_resp,
           "Couldn't receive Signal Messenger data: ")

update_profile(r) ==
    Handle(IF r.t = "exc" THEN Request(r)
           ELSE IF r.status_code # 204
           THEN StatusError(r, "Unknown error while updating profile")
           ELSE Ok(None),
           "Couldn't update profile: ")

list_attachments(r) ==
    Handle(IF r.t = "exc" THEN Request(r)
           ELSE IF r.status_code # 200
           THEN StatusError(r, "Unknown error while listing attachments")
           ELSE json_loads(r.content),
           "Couldn't list attachments: ")

get_attachment(r) ==
    Handle(IF r.t = "exc" THEN Request(r)
           ELSE IF r.status_code # 200
           THEN StatusError(r, "Unknown error while getting attachment")
           ELSE Ok(r.content),
           "Couldn't get attachment: ")

delete_attachment(r) ==
    Handle(IF r.t = "exc" THEN Request(r)
           ELSE IF r.status_code # 204
           THEN StatusError(r, "Unknown error while deleting attachment")
           ELSE Ok(None),
           "Couldn't delete attachment: ")

(* requests.<method>(url, ...) and what the method makes of the answer:  *)
(* the one request is issued and the method returns or raises             *)
Exchange(method, path, r, result) ==
    /\ net' = Sent(method, path)
    /\ resp' = r
    /\ Leave(result)
    /\ UNCHANGED <<op, filenames, attachments_as_bytes, filename, api_versions,
                   build_nr, url, data, opened, prev_versions>>

Call_mode ==
    /\ Enter("mode", "mode", None, None, None)
    /\ UNCHANGED prev_versions

Do_mode ==
    /\ pc = "mode"
    /\ \E r \in AboutResponses : Exchange("GET", "/v1/about", r, mode(r))

Call_create_group ==
    /\ Enter("create_group", "create_group", None, None, None)
    /\ UNCHANGED prev_versions

Do_create_group ==
    /\ pc = "create_group"
    /\ \E r \in Responses :
        Exchange("POST", "/v1/groups/" \o number, r, create_group(r))

Call_list_groups ==
    /\ Enter("list_groups", "list_groups", None, None, None)
    /\ UNCHANGED prev_versions

Do_list_groups ==
    /\ pc = "list_groups"
    /\ \E r \in Responses :
        Exchange("GET", "/v1/groups/" \o number, r, list_groups(r))

Call_receive ==
    /\ Enter("receive", "receive", None, None, None)
    /\ UNCHANGED prev_versions

Do_receive ==
    /\ pc = "receive"
    /\ \E r \in Responses : Exchange("GET", "/v1/receive/" \o number, r, receive(r))

Call_list_attachments ==
    /\ Enter("list_attachments", "list_attachments", None, None, None)
    /\ UNCHANGED prev_versions

Do_list_attachments ==
    /\ pc = "list_attachments"
    /\ \E r \in Responses : Exchange("GET", "/v1/attachments", r, list_attachments(r))

Call_get_attachment ==
    /\ Enter("get_attachment", "get_attachment", None, None, None)
    /\ UNCHANGED prev_versions

Do_get_attachment ==
    /\ pc = "get_attachment"
    /\ \E r \in Responses :
        Exchange("GET", "/v1/attachments/" \o attachment_id, r, get_attachment(r))

Call_delete_attachment ==
    /\ Enter("delete_attachment", "delete_attachment", None, None, None)
    /\ UNCHANGED prev_versions

Do_delete_attachment ==
    /\ pc = "delete_attachment"
    /\ \E r \in Responses :
        Exchange("DELETE", "/v1/attachments/" \o attachment_id, r, delete_attachment(r))

Call_update_profile ==
    /\ \E f \in {None} \cup {Str(p) : p \in Paths} :
        Enter("update_profile", "up_build", None, None, f)
    /\ UNCHANGED prev_versions

(* the profile picture is read inside the try block, before the request *)
UpdateProfile_build ==
    /\ pc = "up_build"
    /\ \E fs \in FileSystems :
        LET rd == IF filename # None
                  THEN ReadFiles(<<filename.s>>, fs, <<>>, <<>>)
                  ELSE [res |-> Ok(<<>>), opened |-> <<>>]
        IN /\ opened' = rd.opened
           /\ IF rd.res.r = "raise"
              THEN /\ Leave(Handle(rd.res, "Couldn't update profile: "))
                   /\ UNCHANGED data
              ELSE /\ data' = IF filename # None
                              THEN ("name" :> profile_name @@ "base64_avatar" :> rd.res.v[1])
                              ELSE ("name" :> profile_name)
                   /\ pc' = "update_profile"
                   /\ UNCHANGED outcome
    /\ UNCHANGED <<op, filenames, attachments_as_bytes, filename, api_versions,
                   build_nr, url, resp, net, prev_versions>>

Do_update_profile ==
    /\ pc = "update_profile"
    /\ \E r \in Responses :
        Exchange("PUT", "/v1/profiles/" \o number, r, update_profile(r))

Next ==
    \/ Call_api_info
    \/ Do_api_info
    \/ Call_mode
    \/ Do_mode
    \/ Call_create_group
    \/ Do_create_group
    \/ Call_list_groups
    \/ Do_list_groups
    \/ Call_receive
    \/ Do_receive
    \/ Call_update_profile
    \/ UpdateProfile_build
    \/ Do_update_profile
    \/ Call_send_message
    \/ SendMessage_api_info
    \/ SendMessage_check
    \/ SendMessage_build
    \/ SendMessage_post
    \/ Call_list_attachments
    \/ Do_list_attachments
    \/ Call_get_attachment
    \/ Do_get_attachment
    \/ Call_delete_attachment
    \/ Do_delete_attachment

Spec == Init /\ [][Next]_vars

-----------------------------------------------------------------------------
(* Properties *)

AboutRequest == [method |-> "GET", url |-> base_url \o "/v1/about"]
V1Send == base_url \o "/v1/send"
V2Send == base_url \o "/v2/send"

HasV2(av) == PyIn("v2", av) = Ok(TRUE)
LacksV2(av) == PyIn("v2", av) = Ok(FALSE)

Posts == {i \in DOMAIN net : net[i].method = "POST"}
Sending == op = "send_message"
(* the payload is complete: the POST is the next statement or has been issued *)
PayloadBuilt == Sending /\ (pc = "sm_post" \/ Posts # {})

FileList == IF filenames = None THEN <<>> ELSE filenames.l
BytesList == IF attachments_as_bytes = None THEN <<>> ELSE attachments_as_bytes.l

(* the attachments the caller asked for, raw bytes first, then files *)
ExpectedList ==
    [i \in 1..(Len(BytesList) + Len(FileList)) |->
        IF i <= Len(BytesList)
        THEN bytes_to_base64(BytesList[i])
        ELSE bytes_to_base64(FileContent(FileList[i - Len(BytesList)]))]

(* C1: a send_message call that POSTs does so once, to /v2/send if and    *)
(* only if the tags its own api_info returned contain "v2", and to        *)
(* /v1/send otherwise.                                                     *)
C1_EndpointFollowsTags ==
    Sending =>
        /\ Cardinality(Posts) <= 1
        /\ \A i \in Posts :
            /\ HasV2(api_versions) \/ LacksV2(api_versions)
            /\ net[i].url = V2Send <=> HasV2(api_versions)
            /\ net[i].url = V1Send <=> LacksV2(api_versions)
        /\ pc = "sm_post" => api_versions = api_info(resp).v.l[1]

C1_Witness ==
    /\ Sending /\ pc = "idle" /\ Posts = {2}
    /\ api_versions = List(<<Str("v1"), Str("v2")>>)
    /\ net[2].url = V2Send

(* C2: with more than one file path and tags without "v2" (the 404        *)
(* default included) the call raises SignalCliRestApiError; no request to *)
(* a send endpoint is issued and no attachment file is opened.            *)
C2_CapabilityErrorBeforeSend ==
    (Sending /\ Len(FileList) > 1 /\ LacksV2(api_versions)) =>
        /\ pc \in {"sm_check", "idle"}
        /\ net = <<AboutRequest>>
        /\ opened = <<>>
        /\ pc = "idle" => outcome = SignalCliRestApiError(Str(CapabilityMessage))

C2_Witness ==
    /\ Sending /\ pc = "idle" /\ Len(FileList) = 2
    /\ api_versions = Str("v1")
    /\ outcome = SignalCliRestApiError(Str(CapabilityMessage))
    /\ net = <<AboutRequest>> /\ opened = <<>>

(* C3: with "v2" among the tags the payload carries the list field        *)
(* base64_attachments and not the scalar field; the list holds the        *)
(* encodings of the raw bytes in their order, then of the files in their  *)
(* order, and is empty when neither is given.                              *)
C3_V2AttachmentList ==
    (PayloadBuilt /\ HasV2(api_versions)) =>
        /\ "base64_attachments" \in DOMAIN data
        /\ "base64_attachment" \notin DOMAIN data
        /\ data["base64_attachments"] = ExpectedList
        /\ Len(data["base64_attachments"]) = Len(BytesList) + Len(FileList)

C3_Witness ==
    /\ PayloadBuilt /\ HasV2(api_versions) /\ Posts = {2}
    /\ Len(BytesList) = 2 /\ BytesList[1] # BytesList[2]
    /\ Len(FileList) = 2 /\ FileList[1] # FileList[2]
    /\ data["base64_attachments"] = <<"TQ==", "TWFu", "", "/wA=">>

(* C4: without "v2" among the tags the payload has the scalar field       *)
(* base64_attachment exactly when one file path was given, never the list *)
(* field, and nothing of the raw bytes; raw bytes raise no error.          *)
C4_LegacySingleAttachment ==
    (Sending /\ LacksV2(api_versions)) =>
        /\ PayloadBuilt =>
            /\ "base64_attachment" \in DOMAIN data <=> Len(FileList) = 1
            /\ Len(FileList) = 1 =>
                 data["base64_attachment"] = bytes_to_base64(FileContent(FileList[1]))
            /\ "base64_attachments" \notin DOMAIN data
            /\ DOMAIN data \subseteq {"message", "number", "recipients", "base64_attachment"}
        /\ (pc = "idle" /\ Posts = {}) => Len(FileList) >= 1

C4_Witness ==
    /\ Sending /\ LacksV2(api_versions) /\ pc = "idle" /\ Posts = {2}
    /\ Len(BytesList) = 2 /\ FileList = <<"a.png">>
    /\ data["base64_attachment"] = "/wA="
    /\ outcome = Ok(None)

(* C5: every public operation that fails raises SignalCliRestApiError and *)
(* nothing else.                                                           *)
C5_UniformError ==
    outcome.r = "raise" => outcome.cls = "SignalCliRestApiError"

SuccessCodes ==
    CASE op \in {"api_info", "mode"} -> {200, 404}
      [] op = "send_message" -> IF Posts = {} THEN {200, 404} ELSE {201}
      [] op = "create_group" -> {200, 201}
      [] op \in {"update_profile", "delete_attachment"} -> {204}
      [] OTHER -> {200}

(* C6: a response whose status is not a success code of its endpoint      *)
(* makes the operation raise SignalCliRestApiError, with the body's       *)
(* "error" field as the message when the body has one.                     *)
C6_NonSuccessRaises ==
    (pc = "idle" /\ resp.t = "resp" /\ resp.status_code \notin SuccessCodes) =>
        /\ outcome.r = "raise"
        /\ outcome.cls = "SignalCliRestApiError"
        /\ (resp.content.t = "dict" /\ "error" \in DOMAIN resp.content.d) =>
               outcome.arg = resp.content.d["error"]

(* C7: on a 404 api_info returns the pair of the tag list ["v1"] and the  *)
(* build number 1; on a body without a build field it returns the body's  *)
(* tags and the build number 1.                                            *)
C7_LegacyDefault ==
    (op = "api_info" /\ pc = "idle" /\ resp.t = "resp") =>
        /\ resp.status_code = 404 =>
             /\ outcome.r = "ok"
             /\ outcome.v.l = <<List(<<Str("v1")>>), Num(1)>>
        /\ (/\ resp.status_code # 404
            /\ resp.content.t = "dict"
            /\ "versions" \in DOMAIN resp.content.d
            /\ "build" \notin DOMAIN resp.content.d) =>
             /\ outcome.r = "ok"
             /\ outcome.v.l = <<resp.content.d["versions"], Num(1)>>

(* C8: each send_message call asks /v1/about itself before it POSTs, and  *)
(* its endpoint and payload format follow the answer to that query, not   *)
(* the tags an earlier call saw.                                           *)
C8_FreshCapabilities ==
    Sending =>
        /\ pc \in {"sm_check", "sm_build", "sm_post"} =>
            /\ net = <<AboutRequest>>
            /\ api_info(resp).r = "ok"
            /\ api_versions = api_info(resp).v.l[1]
        /\ pc = "sm_post" =>
            /\ url = IF HasV2(api_info(resp).v.l[1]) THEN V2Send ELSE V1Send
            /\ "base64_attachments" \in DOMAIN data <=> HasV2(api_info(resp).v.l[1])
        /\ \A i \in Posts : i = 2 /\ net[1] = AboutRequest /\ net[2].url = url

C8_Witness ==
    /\ Sending /\ pc = "sm_post"
    /\ LacksV2(prev_versions) /\ HasV2(api_versions)
    /\ url = V2Send /\ "base64_attachments" \in DOMAIN data

(* C9: send_message issues at most one GET /v1/about and then at most one *)
(* POST, every other operation exactly one request, and no request        *)
(* follows a failed one.                                                   *)
C9_BoundedRequests ==
    /\ Sending =>
        /\ Len(net) <= 2
        /\ Len(net) >= 1 => net[1] = AboutRequest
        /\ Len(net) = 2 => net[2].method = "POST" /\ net[2].url \in {V1Send, V2Send}
        /\ pc = "sm_post" => resp.t = "resp" /\ resp.status_code \in {200, 404}
    /\ (op \notin {"none", "send_message"} /\ pc = "idle") => Len(net) = 1

(* the files the selected branch puts into the payload *)
IncludedFiles ==
    IF HasV2(api_versions) \/ Len(FileList) = 1 THEN FileList ELSE <<>>

(* C10: when reading an attachment file fails the call raises             *)
(* SignalCliRestApiError and nothing is POSTed; a POST carries every      *)
(* attachment of its branch.                                               *)
C10_NoPartialPost ==
    Sending =>
        /\ (\E i \in DOMAIN opened : ~opened[i].ok) =>
            /\ pc = "idle"
            /\ outcome.r = "raise"
            /\ outcome.cls = "SignalCliRestApiError"
            /\ Posts = {}
        /\ PayloadBuilt =>
            /\ [i \in DOMAIN opened |-> opened[i].path] = IncludedFiles
            /\ \A i \in DOMAIN opened : opened[i].ok
            /\ HasV2(api_versions) =>
                 Len(data["base64_attachments"]) = Len(BytesList) + Len(IncludedFiles)
            /\ LacksV2(api_versions) =>
                 ("base64_attachment" \in DOMAIN data <=> Len(IncludedFiles) = 1)

C10_Witness ==
    /\ Sending /\ pc = "idle" /\ HasV2(api_versions)
    /\ Len(opened) = 2 /\ opened[1].ok /\ ~opened[2].ok
    /\ outcome = Raise("SignalCliRestApiError", Str("Couldn't send signal message"),
                       "FileNotFoundError")
    /\ net = <<AboutRequest>>
====
